---- MODULE Spec2Model ----
(***************************************************************************)
(* Model of pyPDFDuplicateRemover.py: one run of DuplicateRemover.__call__ *)
(* after the input file has been opened: extract_text, analyze and         *)
(* delete_duplicates, one step per loop iteration.                         *)
(*                                                                         *)
(* Page indices are 0-based as in the code; the element of a list at       *)
(* Python index p is the TLA+ sequence element p + 1.                      *)
(***************************************************************************)
EXTENDS Integers, Sequences, FiniteSets

(* Largest number of pages of the input document. *)
MaxPages == 3

(* Page texts the document loader may return: a blank page, a one-letter   *)
(* page and two pages that are anagrams of each other.                     *)
Texts == {<<>>, <<"a">>, <<"a", "b">>, <<"b", "a">>}

(* Image lists a page may reference, each image given by its pixel         *)
(* content: none, one image, and the same two images in both orders.       *)
PixelLists == {<<>>, <<1>>, <<1, 2>>, <<2, 1>>}

(* sim > 0.99 is decided on the fraction num/den: num * 100 > 99 * den.    *)
ThresholdNum == 99
ThresholdDen == 100

VARIABLES
    docTexts,    \* reader.pages: what extractText() yields for each page
    docImages,   \* fitz_pdf: the pixel contents of each page's image list
    pc,          \* position in __call__
    texts,       \* extract_text's `pages`, analyze's `texts`
    images,      \* extract_text's `images`
    i, k,        \* analyze's loop indices
    returndata,  \* analyze's accepted pairs
    finished,    \* analyze's report lines
    compared,    \* the (i, k) handed to normalized_similarity, in order
    result,      \* __call__'s `result`
    e,           \* delete_duplicates: position of `e` in `data`
    deleted,     \* delete_duplicates' `deleted`
    idx,         \* delete_duplicates: page index of the copy loop
    output,      \* the PdfFileWriter's pages (by source page index)
    outfile      \* the output file on disk

vars == <<docTexts, docImages, pc, texts, images, i, k, returndata, finished,
          compared, result, e, deleted, idx, output, outfile>>

Range(s) == {s[p] : p \in DOMAIN s}

----------------------------------------------------------------------------
(* textdistance's Jaccard on two strings (qval = 1, as_set = False): the    *)
(* strings are compared as multisets of characters.                        *)

Count(c, s) == Cardinality({p \in DOMAIN s : s[p] = c})

(* p is the Rank(s, p)-th occurrence of its character in s. *)
Rank(s, p) == Cardinality({q \in 1..p : s[q] = s[p]})

(* Size of the multiset intersection: sum over characters of the smaller   *)
(* count.                                                                  *)
Intersection(s, t) == Cardinality({p \in DOMAIN s : Rank(s, p) <= Count(s[p], t)})

(* Size of the multiset union: sum over characters of the larger count.    *)
Union(s, t) == Len(s) + Len(t) - Intersection(s, t)

(* td.jaccard.normalized_similarity(s, t) as the fraction num/den.         *)
(* quick_answer: identical sequences give the maximum 1, otherwise an      *)
(* empty sequence gives 0.                                                 *)
Jaccard(s, t) ==
    IF s = t THEN [num |-> 1, den |-> 1]
    ELSE IF s = <<>> \/ t = <<>> THEN [num |-> 0, den |-> 1]
    ELSE [num |-> Intersection(s, t), den |-> Union(s, t)]

(* sim > 0.99 *)
ExceedsThreshold(sim) == sim.num * ThresholdDen > ThresholdNum * sim.den

----------------------------------------------------------------------------
(* extract_images *)

(* pm.digest: the MD5 of the pixel buffer; equal exactly for equal pixel   *)
(* content.                                                                *)
Digest(pixels) == [md5 |-> pixels]

(* hashes.append(pm.digest) for every image of the page, in list order.    *)
RECURSIVE Hashes(_)
Hashes(imgList) ==
    IF imgList = <<>> THEN <<>>
    ELSE <<Digest(Head(imgList))>> \o Hashes(Tail(imgList))

ExtractImages(pagenumber) == Hashes(docImages[pagenumber + 1])

----------------------------------------------------------------------------
(* Variants of the program's helpers, each changed the way a slip in the   *)
(* code would change it.  Every property proved below is refuted when the  *)
(* helper it rests on is replaced by its variant.                          *)

(* pages.insert(0, ...) instead of pages.append(...) *)
AppendPage_Prepend(pages, p) == <<p>> \o pages

(* enumerate(texts) instead of enumerate(texts[i+1:], start=i+1) *)
FirstK_NoSlice(outer) == 0

(* equality of the hash sets instead of the hash lists *)
Corroborated_AsSets(imgsI, imgsK) ==
    IF imgsI # <<>> /\ imgsK # <<>> THEN Range(imgsI) = Range(imgsK) ELSE TRUE

(* the else branch (line 151-152) dropped *)
Corroborated_NoElse(imgsI, imgsK) ==
    imgsI # <<>> /\ imgsK # <<>> /\ imgsI = imgsK

(* `return returndata` whatever was found *)
AnalyzeResult_AlwaysList(fin, data) == [none |-> FALSE, data |-> data]

(* `if len(returndata) > 0` instead of `if len(finished) > 0` *)
AnalyzeResult_TestsReturndata(fin, data) ==
    IF Len(data) > 0 THEN [none |-> FALSE, data |-> data]
    ELSE [none |-> TRUE, data |-> <<>>]

(* deleted.append(e["px"]) instead of e["py"] *)
Mark_LowerIndex(del, entry) ==
    IF entry.px \notin Range(del) THEN Append(del, entry.px) ELSE del

(* `if not deleted` instead of `if e["py"] not in deleted` *)
Mark_OnlyFirst(del, entry) ==
    IF del = <<>> THEN Append(del, entry.py) ELSE del

(* the `not in deleted` test dropped *)
Mark_NoTest(del, entry) == Append(del, entry.py)

----------------------------------------------------------------------------
(* extract_text *)

(* pages.append(...) / images.append(...) *)
AppendPage(pages, p) == Append(pages, p)

Init ==
    /\ \E n \in 0..MaxPages :
          /\ docTexts \in [1..n -> Texts]
          /\ docImages \in [1..n -> PixelLists]
    /\ pc = "extract_text"
    /\ texts = <<>>
    /\ images = <<>>
    /\ i = 0
    /\ k = 0
    /\ returndata = <<>>
    /\ finished = <<>>
    /\ compared = <<>>
    /\ result = [none |-> TRUE, data |-> <<>>]
    /\ e = 1
    /\ deleted = <<>>
    /\ idx = 0
    /\ output = <<>>
    /\ outfile = [written |-> FALSE, pages |-> <<>>]

(* One iteration of `for idx, p in enumerate(reader.pages)`. *)
ExtractPage ==
    /\ pc = "extract_text"
    /\ Len(texts) < Len(docTexts)
    /\ texts' = AppendPage(texts, docTexts[Len(texts) + 1])
    /\ images' = AppendPage(images, ExtractImages(Len(texts)))
    /\ UNCHANGED <<docTexts, docImages, pc, i, k, returndata, finished,
                   compared, result, e, deleted, idx, output, outfile>>

(* The index of the first inner-loop element for outer index `outer`:      *)
(* enumerate(texts[i+1:], start=i+1).                                      *)
FirstK(outer) == outer + 1

(* `return pages, images`, and analyze's entry up to the first `for`. *)
ExtractReturn ==
    /\ pc = "extract_text"
    /\ Len(texts) = Len(docTexts)
    /\ pc' = "analyze"
    /\ i' = 0
    /\ k' = FirstK(0)
    /\ UNCHANGED <<docTexts, docImages, texts, images, returndata, finished,
                   compared, result, e, deleted, idx, output, outfile>>

----------------------------------------------------------------------------
(* analyze *)

(* Lines 148-152: with image data on both pages the hash lists must be     *)
(* equal; otherwise the pair is taken on its text alone.                   *)
Corroborated(imgsI, imgsK) ==
    IF imgsI # <<>> /\ imgsK # <<>> THEN imgsI = imgsK ELSE TRUE

(* One iteration of the inner loop, for the pair (i, k). *)
AnalyzeCompare ==
    /\ pc = "analyze"
    /\ i < Len(texts)
    /\ k < Len(texts)
    /\ IF k = i
       THEN UNCHANGED <<returndata, finished, compared>>
       ELSE LET sim == Jaccard(texts[i + 1], texts[k + 1]) IN
            /\ compared' = Append(compared, <<i, k>>)
            /\ IF ExceedsThreshold(sim)
               THEN /\ finished' = finished \o
                          <<[pages |-> <<i + 1, k + 1>>, sim |-> sim],
                            <<images[i + 1], images[k + 1]>> >>
                    /\ returndata' =
                          IF Corroborated(images[i + 1], images[k + 1])
                          THEN Append(returndata, [px |-> i, py |-> k, sim |-> sim])
                          ELSE returndata
               ELSE UNCHANGED <<returndata, finished>>
    /\ k' = k + 1
    /\ UNCHANGED <<docTexts, docImages, pc, texts, images, i, result, e,
                   deleted, idx, output, outfile>>

(* The inner loop is exhausted: bar.next() and the next outer index. *)
AnalyzeNextPage ==
    /\ pc = "analyze"
    /\ i < Len(texts)
    /\ k >= Len(texts)
    /\ i' = i + 1
    /\ k' = FirstK(i + 1)
    /\ UNCHANGED <<docTexts, docImages, pc, texts, images, returndata,
                   finished, compared, result, e, deleted, idx, output, outfile>>

(* Lines 156-162: the list of accepted pairs if anything was reported,     *)
(* None otherwise.                                                         *)
AnalyzeResult(fin, data) ==
    IF Len(fin) > 0 THEN [none |-> FALSE, data |-> data]
    ELSE [none |-> TRUE, data |-> <<>>]

AnalyzeReturn ==
    /\ pc = "analyze"
    /\ i >= Len(texts)
    /\ result' = AnalyzeResult(finished, returndata)
    /\ pc' = "call"
    /\ UNCHANGED <<docTexts, docImages, texts, images, i, k, returndata,
                   finished, compared, e, deleted, idx, output, outfile>>

----------------------------------------------------------------------------
(* __call__, line 41 *)

(* `if result is not None: self.delete_duplicates(reader, result)` *)
CallDeleteDuplicates ==
    /\ pc = "call"
    /\ ~result.none
    /\ pc' = "delete_duplicates"
    /\ e' = 1
    /\ deleted' = <<>>
    /\ idx' = 0
    /\ output' = <<>>
    /\ UNCHANGED <<docTexts, docImages, texts, images, i, k, returndata,
                   finished, compared, result, outfile>>

(* result is None: __call__ returns. *)
CallReturn ==
    /\ pc = "call"
    /\ result.none
    /\ pc' = "done"
    /\ UNCHANGED <<docTexts, docImages, texts, images, i, k, returndata,
                   finished, compared, result, e, deleted, idx, output, outfile>>

----------------------------------------------------------------------------
(* delete_duplicates *)

(* Lines 170-171. *)
Mark(del, entry) ==
    IF entry.py \notin Range(del) THEN Append(del, entry.py) ELSE del

(* One iteration of `for e in data`. *)
MarkDeleted ==
    /\ pc = "delete_duplicates"
    /\ e <= Len(result.data)
    /\ deleted' = Mark(deleted, result.data[e])
    /\ e' = e + 1
    /\ UNCHANGED <<docTexts, docImages, pc, texts, images, i, k, returndata,
                   finished, compared, result, idx, output, outfile>>

(* One iteration of `for idx, p in enumerate(reader.pages)`. *)
CopyPage ==
    /\ pc = "delete_duplicates"
    /\ e > Len(result.data)
    /\ idx < Len(docTexts)
    /\ output' = IF idx \notin Range(deleted) THEN Append(output, idx) ELSE output
    /\ idx' = idx + 1
    /\ UNCHANGED <<docTexts, docImages, pc, texts, images, i, k, returndata,
                   finished, compared, result, e, deleted, outfile>>

(* `with open(self._outfile, "wb") as f: output.write(f)` *)
WriteOutfile ==
    /\ pc = "delete_duplicates"
    /\ e > Len(result.data)
    /\ idx >= Len(docTexts)
    /\ outfile' = [written |-> TRUE, pages |-> output]
    /\ pc' = "done"
    /\ UNCHANGED <<docTexts, docImages, texts, images, i, k, returndata,
                   finished, compared, result, e, deleted, idx, output>>

Next ==
    \/ ExtractPage
    \/ ExtractReturn
    \/ AnalyzeCompare
    \/ AnalyzeNextPage
    \/ AnalyzeReturn
    \/ CallDeleteDuplicates
    \/ CallReturn
    \/ MarkDeleted
    \/ CopyPage
    \/ WriteOutfile

Spec == Init /\ [][Next]_vars

----------------------------------------------------------------------------
(* Vocabulary of the properties. *)

NumPages == Len(docTexts)

PageIndices == 0..(NumPages - 1)

(* analyze has just returned to __call__. *)
AnalyzeReturned == pc = "call"

(* analyze has returned, now or earlier in the run. *)
AnalysisDone == pc \in {"call", "delete_duplicates", "done"}

(* delete_duplicates has built its `deleted` list. *)
Resolved ==
    \/ pc = "delete_duplicates" /\ e > Len(result.data)
    \/ pc = "done" /\ outfile.written

(* The texts of pages a and b are more than 0.99 similar. *)
TextSimilar(a, b) == ExceedsThreshold(Jaccard(docTexts[a + 1], docTexts[b + 1]))

(* (a, b) is an accepted pair of the list `data`. *)
InList(data, a, b) == \E j \in DOMAIN data : data[j].px = a /\ data[j].py = b

(* b is the higher index of some accepted pair of `data`. *)
IsHigherIndex(data, b) == \E j \in DOMAIN data : data[j].py = b

Deleted == Range(deleted)

Min(S) == CHOOSE m \in S : \A x \in S : m <= x

(* Every unordered pair within S is an accepted pair. *)
MutualCandidates(S) ==
    \A a \in S : \A b \in S : a < b => InList(result.data, a, b)

(* The page indices 0 .. NumPages - 1 in page order. *)
AllPages == [p \in 1..NumPages |-> p - 1]

IsKept(page) == ~IsHigherIndex(result.data, page)

----------------------------------------------------------------------------
C2_EmptyMeansNoOutput ==
    (AnalysisDone /\ returndata = <<>>) =>
        (pc # "delete_duplicates" /\ ~outfile.written)

(* C3, as stated: a pair of text-similar pages that both have image hashes *)
(* is accepted if and only if the two hash collections are equal as sets.  *)
C3_AcceptedIffSameHashSet ==
    AnalyzeReturned =>
        \A a, b \in PageIndices :
            (a < b /\ TextSimilar(a, b) /\ images[a + 1] # <<>> /\ images[b + 1] # <<>>)
                => (InList(returndata, a, b)
                        <=> Range(images[a + 1]) = Range(images[b + 1]))

(* C3, amended: a pair of text-similar pages that both have image hashes   *)
(* is accepted if and only if the two hash lists are equal element by      *)
(* element, in the order the images are listed; two such pages with        *)
(* different image content are never accepted.                             *)
C3_AcceptedIffSameHashList ==
    AnalyzeReturned =>
        \A a, b \in PageIndices :
            (a < b /\ TextSimilar(a, b) /\ images[a + 1] # <<>> /\ images[b + 1] # <<>>)
                => /\ InList(returndata, a, b)
                        <=> /\ Len(images[a + 1]) = Len(images[b + 1])
                            /\ \A p \in DOMAIN images[a + 1] :
                                   images[a + 1][p] = images[b + 1][p]
                   /\ Range(images[a + 1]) # Range(images[b + 1])
                        => ~InList(returndata, a, b)

(* Two text-similar pages with the same images listed in a different order *)
(* are rejected, next to a pair with equal lists that is accepted.         *)
C3_Witness ==
    /\ AnalyzeReturned
    /\ \E a, b \in PageIndices :
          /\ a < b /\ TextSimilar(a, b)
          /\ images[a + 1] # <<>>
          /\ images[a + 1] # images[b + 1]
          /\ Range(images[a + 1]) = Range(images[b + 1])
          /\ ~InList(returndata, a, b)
    /\ \E a, b \in PageIndices :
          /\ a < b /\ TextSimilar(a, b)
          /\ images[a + 1] # <<>>
          /\ images[a + 1] = images[b + 1]
          /\ InList(returndata, a, b)

(* C4: a pair of text-similar pages of which at least one has no image     *)
(* hash is accepted, whatever images the other page has.                   *)
C4_AcceptedOnTextAlone ==
    AnalyzeReturned =>
        \A a, b \in PageIndices :
            (a < b /\ TextSimilar(a, b) /\ (images[a + 1] = <<>> \/ images[b + 1] = <<>>))
                => InList(returndata, a, b)

(* A page without images accepted against a page with images. *)
C4_Witness ==
    /\ AnalyzeReturned
    /\ \E a, b \in PageIndices :
          /\ a < b /\ TextSimilar(a, b)
          /\ images[a + 1] = <<>>
          /\ images[b + 1] # <<>>
          /\ InList(returndata, a, b)

(* C5, as stated: of any set of mutually accepted pages exactly the member *)
(* with the smallest index survives delete_duplicates.                     *)
C5_ExactlyMinSurvives ==
    Resolved =>
        \A S \in SUBSET PageIndices :
            (Cardinality(S) >= 2 /\ MutualCandidates(S))
                => \A m \in S : m \notin Deleted <=> m = Min(S)

(* C5, amended: of any set of mutually accepted pages every member but the *)
(* one with the smallest index is deleted, and that one survives exactly   *)
(* when it is not the higher index of an accepted pair (with a page        *)
(* outside the set).                                                       *)
C5_AllButMinDeleted ==
    Resolved =>
        \A S \in SUBSET PageIndices :
            (Cardinality(S) >= 2 /\ MutualCandidates(S))
                => /\ \A m \in S \ {Min(S)} : m \in Deleted
                   /\ Min(S) \notin Deleted
                          <=> ~\E a \in PageIndices \ S :
                                    InList(result.data, a, Min(S))

(* A cluster of three mutually accepted pages of which the first survives. *)
C5_Witness ==
    /\ Resolved
    /\ \E S \in SUBSET PageIndices :
          /\ Cardinality(S) >= 3
          /\ MutualCandidates(S)
          /\ Min(S) \notin Deleted
          /\ S \ {Min(S)} \subseteq Deleted

(* C6: the written document holds exactly the pages that are not the       *)
(* higher index of an accepted pair, once each and in page order; deleted  *)
(* holds no index twice, so len(pages) - len(deleted) pages are written.   *)
C6_OutputIsKeptPages ==
    /\ \A p, q \in DOMAIN deleted : deleted[p] = deleted[q] => p = q
    /\ outfile.written =>
          /\ outfile.pages = SelectSeq(AllPages, IsKept)
          /\ Len(outfile.pages) = NumPages - Len(deleted)

(* A document written after a page was the higher index of two pairs.      *)
C6_Witness ==
    /\ outfile.written
    /\ \E p, q \in DOMAIN result.data :
          p # q /\ result.data[p].py = result.data[q].py
    /\ Len(outfile.pages) = NumPages - 1

(* C7: for a document of 0 or 1 pages nothing is compared, no pair is      *)
(* accepted, analyze's result is None, delete_duplicates is not invoked    *)
(* and nothing is written.                                                 *)
C7_NoOpOnShortDocument ==
    NumPages <= 1 =>
        /\ compared = <<>>
        /\ finished = <<>>
        /\ returndata = <<>>
        /\ deleted = <<>>
        /\ pc # "delete_duplicates"
        /\ ~outfile.written
        /\ AnalysisDone => result.none

(* The run of a one-page document has ended. *)
C7_Witness == NumPages = 1 /\ pc = "done" /\ result.none

(* C8: analyze compares every unordered pair of distinct page indices once *)
(* (n*(n-1)/2 comparisons, no page with itself); every entry of its list   *)
(* has px < py, both page indices, and the list is strictly ascending in   *)
(* (px, py).                                                               *)
C8_PairsOnceInOrder ==
    /\ \A c \in DOMAIN compared :
          /\ compared[c][1] \in PageIndices
          /\ compared[c][2] \in PageIndices
          /\ compared[c][1] < compared[c][2]
          /\ \A d \in DOMAIN compared : compared[c] = compared[d] => c = d
    /\ AnalysisDone =>
          /\ 2 * Len(compared) = NumPages * (NumPages - 1)
          /\ \A a, b \in PageIndices :
                a < b => \E c \in DOMAIN compared : compared[c] = <<a, b>>
    /\ \A j \in DOMAIN returndata :
          /\ returndata[j].px \in PageIndices
          /\ returndata[j].py \in PageIndices
          /\ returndata[j].px < returndata[j].py
    /\ \A j, h \in DOMAIN returndata :
          j < h => \/ returndata[j].px < returndata[h].px
                   \/ /\ returndata[j].px = returndata[h].px
                      /\ returndata[j].py < returndata[h].py

(* All three pairs of a three-page document were compared and accepted.    *)
C8_Witness ==
    /\ AnalysisDone
    /\ NumPages = 3
    /\ Len(compared) = 3
    /\ Len(returndata) = 3

(* What holds of the fingerprints in every state of a run. *)
C9_Fingerprints ==
    /\ Len(texts) = Len(images)
    /\ Len(texts) <= NumPages
    /\ \A p \in DOMAIN texts :
          /\ texts[p] = docTexts[p]
          /\ Len(images[p]) = Len(docImages[p])
          /\ \A q \in DOMAIN images[p] : images[p][q].md5 = docImages[p][q]
    /\ pc # "extract_text" => Len(texts) = NumPages
    /\ pc = "extract_text" => compared = <<>>
    /\ (pc = "delete_duplicates" \/ outfile.written)
          => 2 * Len(compared) = NumPages * (NumPages - 1)

(* C9: extract_text yields one text and one hash list per page, in page    *)
(* order, and has finished before the first comparison; afterwards the     *)
(* texts and hash lists are never modified; resolution starts only after   *)
(* all comparisons.                                                        *)
C9_ExtractThenReadOnly ==
    /\ []C9_Fingerprints
    /\ [][pc # "extract_text" => (texts' = texts /\ images' = images)]_vars
    /\ [][deleted' # deleted => 2 * Len(compared) = NumPages * (NumPages - 1)]_vars

(* Resolution has marked a page of a three-page document with images.      *)
C9_Witness ==
    /\ pc = "delete_duplicates"
    /\ NumPages = 3
    /\ deleted # <<>>
    /\ \E p \in DOMAIN images : Len(images[p]) = 2

(* C10: analyze returns None if and only if no pair of pages is more than  *)
(* 0.99 similar in text; otherwise it returns the pairs that are and that  *)
(* pass the image rule; delete_duplicates is invoked exactly when the      *)
(* result is not None.                                                     *)
C10_NoneIffNoSimilarText ==
    /\ AnalyzeReturned =>
          /\ result.none
                <=> ~\E a, b \in PageIndices : a < b /\ TextSimilar(a, b)
          /\ ~result.none =>
                \A a, b \in PageIndices :
                    InList(result.data, a, b)
                        <=> /\ a < b
                            /\ TextSimilar(a, b)
                            /\ \/ images[a + 1] = <<>>
                               \/ images[b + 1] = <<>>
                               \/ images[a + 1] = images[b + 1]
    /\ pc = "delete_duplicates" => ~result.none
    /\ pc = "done" => (outfile.written <=> ~result.none)

(* delete_duplicates ran on an empty list: text-similar pairs were         *)
(* reported and every one failed the image rule.                           *)
C10_Witness ==
    /\ pc = "done"
    /\ ~result.none
    /\ result.data = <<>>
    /\ outfile.written

====
